---- MODULE Spec2Model ----
(***************************************************************************)
(* fqme: FASTQ record index (.fqi) builders, range query, persistence and  *)
(* the extract pipeline over a BGZF-compressed FASTQ.                      *)
(*                                                                         *)
(* Bytes are natural numbers 0..255, byte strings are sequences of bytes.  *)
(* u64 values stay far below 2^31 at the bounds used here, so no           *)
(* arithmetic in the model wraps; where the code subtracts u64 values the  *)
(* model computes over the integers and the claims state that the          *)
(* difference is not negative.                                             *)
(***************************************************************************)
EXTENDS Integers, Sequences, FiniteSets, TLC

\* ------------------------------------------------------------------ bounds
MaxRecords == 3
MaxNth == 3
MaxCut == 17
MaxDepth == 3
MaxBlocks == 2
MaxRead == 3

\* ------------------------------------------------------------------- bytes
AT == 64
PLUS == 43
NL == 10

\* The record fixtures, as the fields of a four-line FASTQ record.  The
\* first two are the records of test_from_reader_with_plus_comment; the third
\* has a quality string that holds the byte '@'.
RecComment ==
    [head |-> <<114, 101, 97, 100, 49>>, seq |-> <<65, 67, 71, 84>>,
     comment |-> <<116, 104, 105, 115, 32, 105, 115, 32, 97, 32, 99, 111,
                   109, 109, 101, 110, 116>>,
     qual |-> <<73, 73, 73, 73>>]

RecPlain ==
    [head |-> <<114, 101, 97, 100, 50>>, seq |-> <<71, 71, 71, 71>>,
     comment |-> <<>>, qual |-> <<74, 74, 74, 74>>]

RecAtQual ==
    [head |-> <<114, 51>>, seq |-> <<65>>, comment |-> <<>>, qual |-> <<AT>>]

Records == {RecComment, RecPlain, RecAtQual}

\* The on-disk bytes of one record: four lines, each ended by a newline.
RecordBytes(r) ==
    <<AT>> \o r.head \o <<NL>> \o r.seq \o <<NL, PLUS>> \o r.comment \o <<NL>>
        \o r.qual \o <<NL>>

RECURSIVE FileBytes(_)
FileBytes(recs) ==
    IF recs = <<>> THEN <<>>
    ELSE RecordBytes(Head(recs)) \o FileBytes(Tail(recs))

RECURSIVE SeqsUpTo(_, _)
SeqsUpTo(S, n) ==
    IF n = 0 THEN {<<>>}
    ELSE LET shorter == SeqsUpTo(S, n - 1)
         IN shorter \cup {Append(s, x) : s \in {t \in shorter : Len(t) = n - 1}, x \in S}

\* --------------------------------------------------------- FASTQ tokenizer
\* seq_io::fastq::Reader over a byte string b, reading from position p
\* (1-based): the next record, the end of input, or a parse error.
LineEnd(b, p) ==
    LET nls == {i \in p..Len(b) : b[i] = NL}
    IN IF nls = {} THEN 0 ELSE CHOOSE i \in nls : \A j \in nls : i <= j

Slice(b, lo, hi) == IF hi < lo THEN <<>> ELSE SubSeq(b, lo, hi)

NextRecord(b, p) ==
    IF p > Len(b) THEN [kind |-> "end"]
    ELSE IF b[p] # AT THEN [kind |-> "err"]
    ELSE
      LET e1 == LineEnd(b, p)
          e2 == IF e1 = 0 THEN 0 ELSE LineEnd(b, e1 + 1)
          e3 == IF e2 = 0 THEN 0 ELSE LineEnd(b, e2 + 1)
          e4 == IF e3 = 0 THEN 0 ELSE LineEnd(b, e3 + 1)
      IN IF e4 = 0 THEN [kind |-> "err"]
         ELSE IF b[e2 + 1] # PLUS THEN [kind |-> "err"]
         ELSE IF e2 - e1 # e4 - e3 THEN [kind |-> "err"]
         ELSE [kind |-> "rec",
               head |-> Slice(b, p + 1, e1 - 1),
               seq |-> Slice(b, e1 + 1, e2 - 1),
               qual |-> Slice(b, e3 + 1, e4 - 1),
               raw |-> Slice(b, p, e4),
               next |-> e4 + 1]

\* BaseRecord::write: the canonical form, with a bare '+' separator line.
WriteRecord(rec) ==
    <<AT>> \o rec.head \o <<NL>> \o rec.seq \o <<NL, PLUS, NL>> \o rec.qual \o <<NL>>

\* Mutant of CountUnchanged: the size rebuilt from the fields of the record.
CountFields(rec) ==
    1 + Len(rec.head) + 1 + Len(rec.seq) + 1 + 2 + Len(rec.qual) + 1

\* RefRecord::write_unchanged into a ByteCountingWriter: the count after it.
CountUnchanged(rec) == Len(rec.raw)

\* FastqIndex::record_to_num_bytes, and the same sum in index::run.
record_to_num_bytes(rec) ==
    1 + Len(rec.head) + 1 + Len(rec.seq) + 1 + 2 + Len(rec.qual) + 1

\* ------------------------------------------------------------------- state
VARIABLES
    fastq,          \* the FASTQ input, a sequence of records, read as FileBytes(fastq)
    nth,            \* the stride
    builder,        \* the entry point that indexes the input
    fastq_writer,   \* TRUE iff a pass-through writer is configured
    pc,             \* "loop" while the builder reads records, then "done"
    rpos,           \* the tokenizer's position in the input bytes
    total_records,  \* the builder's record counter
    total_bytes,    \* the builder's byte counter
    entries,        \* the builder's checkpoints
    fqiFile,        \* the bytes of the .fqi file on disk
    stdout,         \* the bytes written to the pass-through writer
    last            \* the last library call or pipeline run and its result

\* The BgzfReader of extract and the compressed file it reads.
VARIABLES
    file_blocks,              \* the blocks of the compressed file, in file order
    damage,                   \* what is wrong with the file, if anything
    rd,                       \* "closed" before BgzfReader::new, then "open"; "panic" after a panic
    arg_compressed_offset,    \* the offset BgzfReader::new was given
    arg_num_blocks,           \* the block budget BgzfReader::new was given
    reader,                   \* the file position: the number of the block read next
    uncompressed_data,        \* the buffer
    uncompressed_data_index,  \* the read cursor in the buffer (0-based)
    num_blocks_left,          \* the remaining block budget
    decoded,                  \* the numbers of the blocks fill has decoded, in order
    served,                   \* the bytes read has returned, each with its block and place
    ret                       \* the last call on the reader and what it returned

indexVars == <<fastq, nth, builder, fastq_writer, pc, rpos, total_records, total_bytes,
               entries, fqiFile, stdout, last>>

readerVars == <<file_blocks, damage, rd, arg_compressed_offset, arg_num_blocks, reader,
                uncompressed_data, uncompressed_data_index, num_blocks_left, decoded,
                served, ret>>

\* The locals of extract::run while its emission loop runs: fqi_range, the
\* tokenizer over the stream of the reader, index, num_to_write, the bytes
\* written to the writer, and the indexes of the records written.
VARIABLE run

vars == <<indexVars, readerVars, run>>

NoDamage == [kind |-> "none", at |-> 0]

\* The reader before BgzfReader::new, as in every state of the index builders.
ReaderClosed ==
    /\ rd = "closed"
    /\ arg_compressed_offset = 0
    /\ arg_num_blocks = 0
    /\ reader = 1
    /\ uncompressed_data = <<>>
    /\ uncompressed_data_index = 0
    /\ num_blocks_left = 0
    /\ decoded = <<>>
    /\ served = <<>>
    /\ ret = [op |-> "none"]

Builders == {"from", "from_reader", "index_run"}

Entry(r, b) == [total_records |-> r, total_bytes |-> b]

Init ==
    /\ fastq \in SeqsUpTo(Records, MaxRecords)
    /\ nth \in 1..MaxNth
    /\ builder \in Builders
    /\ fastq_writer \in BOOLEAN
    /\ pc = "loop"
    /\ rpos = 1
    /\ total_records = 0
    /\ total_bytes = 0
    /\ entries = <<>>
    /\ fqiFile = <<>>
    /\ stdout = <<>>
    /\ last = [op |-> "none"]
    /\ file_blocks = <<>>
    /\ damage = NoDamage
    /\ ReaderClosed
    /\ run = [pc |-> "idle"]

\* ---------------------------------------------------------------- builders
\* Mutant of Checkpoint: the stride is tested after the record is counted.
CheckpointAfter(es, n, records, bytes) ==
    IF (records + 1) % n = 0
    THEN Append(es, [total_records |-> records, total_bytes |-> bytes]) ELSE es

\* Mutant of Checkpoint: a checkpoint for every record, whatever the stride.
CheckpointEvery(es, n, records, bytes) ==
    Append(es, [total_records |-> records, total_bytes |-> bytes])

\* The checkpoint pushed at the top of every loop body.
Checkpoint(es, n, records, bytes) ==
    IF records % n = 0 THEN Append(es, Entry(records, bytes)) ELSE es

PassThrough(out, rec) == IF fastq_writer THEN out \o WriteRecord(rec) ELSE out

\* u64 little-endian, for values below 2^32.
U64LE(v) ==
    <<v % 256, (v \div 256) % 256, (v \div 65536) % 256, (v \div 16777216) % 256,
      0, 0, 0, 0>>

\* index::run writes its checkpoint straight to the index file.
WriteCheckpoint(file, n, records, bytes) ==
    IF records % n = 0 THEN file \o U64LE(records) \o U64LE(bytes) ELSE file

\* One iteration of the loop of FastqIndex::from.
FromStep ==
    LET rec == NextRecord(FileBytes(fastq), rpos) IN
    /\ pc = "loop" /\ builder = "from"
    /\ rec.kind = "rec"
    /\ entries' = Checkpoint(entries, nth, total_records, total_bytes)
    /\ total_records' = total_records + 1
    /\ total_bytes' = total_bytes + record_to_num_bytes(rec)
    /\ stdout' = PassThrough(stdout, rec)
    /\ rpos' = rec.next
    /\ UNCHANGED <<fastq, nth, builder, fastq_writer, pc, fqiFile, last>>
    /\ UNCHANGED <<readerVars, run>>

\* One iteration of the loop of FastqIndex::from_reader.
FromReaderStep ==
    LET rec == NextRecord(FileBytes(fastq), rpos) IN
    /\ pc = "loop" /\ builder = "from_reader"
    /\ rec.kind = "rec"
    /\ entries' = Checkpoint(entries, nth, total_records, total_bytes)
    /\ total_bytes' = total_bytes + CountUnchanged(rec)
    /\ total_records' = total_records + 1
    /\ stdout' = PassThrough(stdout, rec)
    /\ rpos' = rec.next
    /\ UNCHANGED <<fastq, nth, builder, fastq_writer, pc, fqiFile, last>>
    /\ UNCHANGED <<readerVars, run>>

\* Mutant of BuilderReturn: the builder returns without the final entry.
BuilderReturnNoFinal ==
    /\ pc = "loop" /\ builder \in {"from", "from_reader"}
    /\ NextRecord(FileBytes(fastq), rpos).kind = "end"
    /\ pc' = "done"
    /\ UNCHANGED <<fastq, nth, builder, fastq_writer, rpos, total_records, total_bytes,
                   entries, fqiFile, stdout, last>>
    /\ UNCHANGED <<readerVars, run>>

\* The end of FastqIndex::from and FastqIndex::from_reader: the final entry.
BuilderReturn ==
    /\ pc = "loop" /\ builder \in {"from", "from_reader"}
    /\ NextRecord(FileBytes(fastq), rpos).kind = "end"
    /\ entries' = Append(entries, Entry(total_records, total_bytes))
    /\ pc' = "done"
    /\ UNCHANGED <<fastq, nth, builder, fastq_writer, rpos, total_records, total_bytes,
                   fqiFile, stdout, last>>
    /\ UNCHANGED <<readerVars, run>>

\* One iteration of the loop of index::run, which writes each checkpoint to
\* the index file as it goes.
IndexRunStep ==
    LET rec == NextRecord(FileBytes(fastq), rpos) IN
    /\ pc = "loop" /\ builder = "index_run"
    /\ rec.kind = "rec"
    /\ fqiFile' = WriteCheckpoint(fqiFile, nth, total_records, total_bytes)
    /\ total_records' = total_records + 1
    /\ total_bytes' = total_bytes + record_to_num_bytes(rec)
    /\ stdout' = PassThrough(stdout, rec)
    /\ rpos' = rec.next
    /\ UNCHANGED <<fastq, nth, builder, fastq_writer, pc, entries, last>>
    /\ UNCHANGED <<readerVars, run>>

\* The end of index::run: the final pair of words.
IndexRunReturn ==
    /\ pc = "loop" /\ builder = "index_run"
    /\ NextRecord(FileBytes(fastq), rpos).kind = "end"
    /\ fqiFile' = fqiFile \o U64LE(total_records) \o U64LE(total_bytes)
    /\ pc' = "done"
    /\ UNCHANGED <<fastq, nth, builder, fastq_writer, rpos, total_records, total_bytes,
                   entries, stdout, last>>
    /\ UNCHANGED <<readerVars, run>>

\* The FastqIndex value a finished builder returns.
Index == [total_records |-> total_records, nth |-> nth, entries |-> entries]

Built == pc = "done" /\ builder \in {"from", "from_reader"}

\* ------------------------------------------------------- FastqIndex::range
None == [some |-> FALSE]

\* The outcome of a query whose recursion did not end within MaxDepth calls.
Diverged == [some |-> FALSE, diverged |-> TRUE]

\* Mutant of StartScan: the scan stops only at an entry beyond start_record.
RECURSIVE StartScanStrict(_, _, _, _)
StartScanStrict(idx, start_record, i, acc) ==
    IF i > Len(idx.entries) THEN acc
    ELSE LET entry == idx.entries[i] IN
         IF start_record < entry.total_records
         THEN [acc EXCEPT !.leading_records = (start_record - 1) % idx.nth]
         ELSE StartScanStrict(idx, start_record, i + 1,
                              [acc EXCEPT !.start_byte = entry.total_bytes,
                                          !.last_total_records = entry.total_records,
                                          !.start_entry = acc.start_entry + 1])

\* The first loop of range: the scan for the start checkpoint.  i is the
\* 1-based position of the entry looked at; acc holds the loop's variables.
RECURSIVE StartScan(_, _, _, _)
StartScan(idx, start_record, i, acc) ==
    IF i > Len(idx.entries) THEN acc
    ELSE LET entry == idx.entries[i] IN
         IF start_record <= entry.total_records
         THEN [acc EXCEPT !.leading_records = (start_record - 1) % idx.nth]
         ELSE StartScan(idx, start_record, i + 1,
                        [acc EXCEPT !.start_byte = entry.total_bytes,
                                    !.last_total_records = entry.total_records,
                                    !.start_entry = acc.start_entry + 1])

\* The second loop of range: the scan for the end checkpoint, from start_entry.
RECURSIVE EndScan(_, _, _, _)
EndScan(idx, end_record, i, acc) ==
    IF i > Len(idx.entries) THEN acc
    ELSE LET entry == idx.entries[i] IN
         IF end_record <= entry.total_records
         THEN [acc EXCEPT !.trailing_records = entry.total_records - end_record,
                          !.end_byte = entry.total_bytes,
                          !.total_records = entry.total_records - acc.last_total_records]
         ELSE EndScan(idx, end_record, i + 1, acc)

\* Mutant of Resolve: total_records is the end checkpoint's count, not the
\* count of records in the window.
ResolveAbsolute(idx, start_record, end_record) ==
    LET init == [leading_records |-> start_record - 1, trailing_records |-> 0,
                 start_byte |-> 0, end_byte |-> 0, total_records |-> 0,
                 last_total_records |-> 0, start_entry |-> 0]
        a == StartScan(idx, start_record, 1, init)
        b == EndScan(idx, end_record, a.start_entry + 1, a)
    IN [some |-> TRUE,
        start_byte |-> b.start_byte,
        end_byte |-> b.end_byte,
        leading_records |-> b.leading_records,
        trailing_records |-> b.trailing_records,
        total_records |-> b.total_records + b.last_total_records]

\* The body of range after the clamping.
Resolve(idx, start_record, end_record) ==
    LET init == [leading_records |-> start_record - 1, trailing_records |-> 0,
                 start_byte |-> 0, end_byte |-> 0, total_records |-> 0,
                 last_total_records |-> 0, start_entry |-> 0]
        a == StartScan(idx, start_record, 1, init)
        b == EndScan(idx, end_record, a.start_entry + 1, a)
    IN [some |-> TRUE,
        start_byte |-> b.start_byte,
        end_byte |-> b.end_byte,
        leading_records |-> b.leading_records,
        trailing_records |-> b.trailing_records,
        total_records |-> b.total_records]

\* Mutant of RangeCall: the test end_record < start_record is missing.
RECURSIVE RangeCallNoOrder(_, _, _, _)
RangeCallNoOrder(idx, start_record, end_record, calls) ==
    IF calls > MaxDepth THEN [res |-> Diverged, calls |-> calls]
    ELSE IF end_record < 1 \/ idx.total_records < start_record
    THEN [res |-> None, calls |-> calls]
    ELSE IF start_record < 1
    THEN RangeCallNoOrder(idx, 1, end_record, calls + 1)
    ELSE IF idx.total_records < end_record
    THEN RangeCallNoOrder(idx, start_record, idx.total_records, calls + 1)
    ELSE [res |-> Resolve(idx, start_record, end_record), calls |-> calls]

\* Mutant of RangeCall: a start_record below 1 is retried unchanged.
RECURSIVE RangeCallNoClamp(_, _, _, _)
RangeCallNoClamp(idx, start_record, end_record, calls) ==
    IF calls > MaxDepth THEN [res |-> Diverged, calls |-> calls]
    ELSE IF end_record < start_record \/ end_record < 1
            \/ idx.total_records < start_record
    THEN [res |-> None, calls |-> calls]
    ELSE IF start_record < 1
    THEN RangeCallNoClamp(idx, start_record, end_record, calls + 1)
    ELSE IF idx.total_records < end_record
    THEN RangeCallNoClamp(idx, start_record, idx.total_records, calls + 1)
    ELSE [res |-> Resolve(idx, start_record, end_record), calls |-> calls]

\* range with its recursion counted: calls is the number of invocations of
\* range that the query made; a query that needs more than MaxDepth of them
\* is reported as diverged.
RECURSIVE RangeCall(_, _, _, _)
RangeCall(idx, start_record, end_record, calls) ==
    IF calls > MaxDepth THEN [res |-> Diverged, calls |-> calls]
    ELSE IF end_record < start_record \/ end_record < 1
            \/ idx.total_records < start_record
    THEN [res |-> None, calls |-> calls]
    ELSE IF start_record < 1
    THEN RangeCall(idx, 1, end_record, calls + 1)
    ELSE IF idx.total_records < end_record
    THEN RangeCall(idx, start_record, idx.total_records, calls + 1)
    ELSE [res |-> Resolve(idx, start_record, end_record), calls |-> calls]

range(idx, start_record, end_record) == RangeCall(idx, start_record, end_record, 1).res

\* FastqIndexRange::selected_records, evaluated left to right.
selected_records(r) == (r.total_records - r.leading_records) - r.trailing_records

\* A call of range on the index that the builder returned.
Range(start_record, end_record) ==
    /\ Built /\ last.op = "none"
    /\ last' = [op |-> "range", start |-> start_record, end |-> end_record,
                res |-> range(Index, start_record, end_record),
                calls |-> RangeCall(Index, start_record, end_record, 1).calls]
    /\ UNCHANGED <<fastq, nth, builder, fastq_writer, pc, rpos, total_records,
                   total_bytes, entries, fqiFile, stdout>>
    /\ UNCHANGED <<readerVars, run>>

\* ------------------------------------------ FastqIndex::write and ::read
RECURSIVE WriteEntries(_)
WriteEntries(es) ==
    IF es = <<>> THEN <<>>
    ELSE U64LE(Head(es).total_records) \o U64LE(Head(es).total_bytes)
             \o WriteEntries(Tail(es))

\* Mutant of write: the stride is left out of the header.
writeNoNth(idx) ==
    U64LE(idx.total_records) \o WriteEntries(idx.entries)

\* The bytes FastqIndex::write puts in the file.
write(idx) ==
    U64LE(idx.total_records) \o U64LE(idx.nth) \o WriteEntries(idx.entries)

\* read_u64::<LittleEndian> at position p: fails when fewer than 8 bytes are left.
ReadU64(b, p) ==
    IF p + 7 > Len(b) THEN [ok |-> FALSE]
    ELSE [ok |-> TRUE,
          v |-> b[p] + 256 * b[p + 1] + 65536 * b[p + 2] + 16777216 * b[p + 3],
          next |-> p + 8]

\* The loop of FastqIndex::read: it ends quietly when the first word of an
\* entry cannot be read and fails when the second cannot.
RECURSIVE ReadEntries(_, _, _)
ReadEntries(b, p, es) ==
    LET num_records == ReadU64(b, p) IN
    IF ~num_records.ok THEN [ok |-> TRUE, entries |-> es]
    ELSE LET bytes == ReadU64(b, num_records.next) IN
         IF ~bytes.ok THEN [ok |-> FALSE]
         ELSE ReadEntries(b, bytes.next, Append(es, Entry(num_records.v, bytes.v)))

read(b) ==
    LET records == ReadU64(b, 1) IN
    IF ~records.ok THEN [ok |-> FALSE]
    ELSE LET n == ReadU64(b, records.next) IN
         IF ~n.ok THEN [ok |-> FALSE]
         ELSE LET es == ReadEntries(b, n.next, <<>>) IN
              IF ~es.ok THEN [ok |-> FALSE]
              ELSE [ok |-> TRUE,
                    index |-> [total_records |-> records.v, nth |-> n.v,
                               entries |-> es.entries]]

\* FastqIndex::write of the index that the builder returned.
Write ==
    /\ Built /\ fqiFile = <<>>
    /\ fqiFile' = write(Index)
    /\ UNCHANGED <<fastq, nth, builder, fastq_writer, pc, rpos, total_records,
                   total_bytes, entries, stdout, last>>
    /\ UNCHANGED <<readerVars, run>>

\* FastqIndex::read of the written file, of which the last cut bytes are
\* missing (cut = 0: the file as written).
Read(cut) ==
    /\ Built /\ fqiFile # <<>> /\ last.op = "none"
    /\ cut <= Len(fqiFile)
    /\ last' = [op |-> "read", cut |-> cut,
                res |-> read(SubSeq(fqiFile, 1, Len(fqiFile) - cut))]
    /\ UNCHANGED <<fastq, nth, builder, fastq_writer, pc, rpos, total_records,
                   total_bytes, entries, fqiFile, stdout>>
    /\ UNCHANGED <<readerVars, run>>

\* ------------------------------------------------------ the BGZF input
BGZF_BLOCK_SIZE == 65280
BgzfHeaderSize == 18
BgzfFooterSize == 8

\* The payload sizes a BGZF writer is run with; the largest keeps every
\* input of the model in one block.
BlockSizes == {7, 24, BGZF_BLOCK_SIZE}

\* The payloads of the data blocks of a BGZF compression of data.
RECURSIVE Payloads(_, _)
Payloads(data, size) ==
    IF data = <<>> THEN <<>>
    ELSE IF Len(data) <= size THEN <<data>>
    ELSE <<SubSeq(data, 1, size)>> \o Payloads(SubSeq(data, size + 1, Len(data)), size)

\* A BGZF file: its data blocks followed by the empty end-of-file block.  A
\* block is its compressed offset, its uncompressed offset and its payload;
\* the compressed size of a block is header + payload + footer.
RECURSIVE Blocks(_, _, _)
Blocks(payloads, coff, uoff) ==
    IF payloads = <<>>
    THEN <<[compressed_offset |-> coff, uncompressed_offset |-> uoff, payload |-> <<>>]>>
    ELSE <<[compressed_offset |-> coff, uncompressed_offset |-> uoff,
            payload |-> Head(payloads)]>>
         \o Blocks(Tail(payloads),
                   coff + BgzfHeaderSize + Len(Head(payloads)) + BgzfFooterSize,
                   uoff + Len(Head(payloads)))

BgzfFile(data, size) == Blocks(Payloads(data, size), 0, 0)

\* The pairs of the .gzi of a BGZF file: one per data block after the first.
GziPairs(file) ==
    [i \in 1..(Len(file) - 2) |->
        [compressed_offset |-> file[i + 1].compressed_offset,
         uncompressed_offset |-> file[i + 1].uncompressed_offset]]

\* BgzfIndex::from: the pairs of the file behind a synthetic (0, 0).
BgzfIndexFrom(pairs) ==
    <<[compressed_offset |-> 0, uncompressed_offset |-> 0]>> \o pairs

\* ------------------------------------------------------ the extract pipeline
\* The .fqi reader of extract: pairs of words from the first byte of the file.
RECURSIVE ReadPairs(_, _, _)
ReadPairs(b, p, es) ==
    LET num_records == ReadU64(b, p) IN
    IF ~num_records.ok THEN es
    ELSE LET bytes == ReadU64(b, num_records.next) IN
         ReadPairs(b, bytes.next,
                   Append(es, [num_records |-> num_records.v, total_bytes |-> bytes.v]))

\* Mutant of RangeLoop: an entry at start_record itself moves the start.
RECURSIVE RangeLoopInclusive(_, _, _, _, _)
RangeLoopInclusive(indexes, i, start_record, end_record, acc) ==
    IF i > Len(indexes) THEN acc
    ELSE LET entry == indexes[i]
             a == IF entry.num_records <= start_record
                  THEN [acc EXCEPT
                          !.leading_records = start_record - entry.num_records - 1,
                          !.start_byte = entry.total_bytes]
                  ELSE acc
             b == [a EXCEPT !.num_records = a.num_records + entry.num_records,
                            !.end_byte = entry.total_bytes]
         IN IF entry.num_records >= end_record
            THEN [b EXCEPT !.trailing_records = entry.num_records - end_record]
            ELSE RangeLoopInclusive(indexes, i + 1, start_record, end_record, b)

\* The loop of FastqIndexRange::from over the entries read.
RECURSIVE RangeLoop(_, _, _, _, _)
RangeLoop(indexes, i, start_record, end_record, acc) ==
    IF i > Len(indexes) THEN acc
    ELSE LET entry == indexes[i]
             a == IF entry.num_records < start_record
                  THEN [acc EXCEPT
                          !.leading_records = start_record - entry.num_records - 1,
                          !.start_byte = entry.total_bytes]
                  ELSE acc
             b == [a EXCEPT !.num_records = a.num_records + entry.num_records,
                            !.end_byte = entry.total_bytes]
         IN IF entry.num_records >= end_record
            THEN [b EXCEPT !.trailing_records = entry.num_records - end_record]
            ELSE RangeLoop(indexes, i + 1, start_record, end_record, b)

\* FastqIndexRange::from of extract.
FastqIndexRangeFrom(file, start_record, end_record) ==
    LET indexes == ReadPairs(file, 1, <<>>)
        acc == RangeLoop(indexes, 1, start_record, end_record,
                         [leading_records |-> start_record - 1, trailing_records |-> 0,
                          start_byte |-> 0, end_byte |-> 0, num_records |-> 0])
    IN [start_byte |-> acc.start_byte,
        num_bytes |-> acc.end_byte - acc.start_byte,
        leading_records |-> acc.leading_records,
        trailing_records |-> acc.trailing_records,
        num_records |-> acc.num_records]

\* The scan of the .gzi in extract::run.
RECURSIVE Locate(_, _, _, _)
Locate(gzi, i, fqi_range, acc) ==
    IF i > Len(gzi) THEN acc
    ELSE LET entry == gzi[i]
             a == [start_entry |-> IF entry.uncompressed_offset < fqi_range.start_byte
                                   THEN entry ELSE acc.start_entry,
                   num_blocks |-> acc.num_blocks + 1]
         IN IF entry.uncompressed_offset >= fqi_range.num_bytes THEN a
            ELSE Locate(gzi, i + 1, fqi_range, a)

\* The bytes from position p on of the payloads of the blocks i.. of the file.
RECURSIVE PayloadFrom(_, _)
PayloadFrom(file, i) ==
    IF i > Len(file) THEN <<>> ELSE file[i].payload \o PayloadFrom(file, i + 1)

FirstAt(b) ==
    LET ats == {i \in 1..Len(b) : b[i] = AT}
    IN IF ats = {} THEN 0 ELSE CHOOSE i \in ats : \A j \in ats : i <= j

\* The bytes a BgzfReader serves after BgzfReader::new: the reader seeks to
\* compressed_offset, decodes block after block (fill does not count
\* num_blocks_left down) and new skips the bytes before the first '@'.
ReaderStream(file, compressed_offset, num_blocks) ==
    IF num_blocks = 0 THEN <<>>
    ELSE LET k == CHOOSE i \in 1..Len(file) : file[i].compressed_offset = compressed_offset
             data == PayloadFrom(file, k)
             at == FirstAt(data)
         IN IF at = 0 THEN <<>> ELSE SubSeq(data, at, Len(data))

\* The uncompressed offset of the first byte a BgzfReader serves after
\* BgzfReader::new, which stops at the first '@' at or after the start of the
\* block it seeks to; -1 when the reader serves no byte.
FirstServedOffset(file, compressed_offset, num_blocks) ==
    IF num_blocks = 0 THEN -1
    ELSE LET k == CHOOSE i \in 1..Len(file) : file[i].compressed_offset = compressed_offset
             at == FirstAt(PayloadFrom(file, k))
         IN IF at = 0 THEN -1 ELSE file[k].uncompressed_offset + at - 1

\* The emission loop of extract::run over the records of the stream.  When
\* the tokenizer needs bytes after the end-of-file block, read indexes an
\* empty buffer and the run panics.
RECURSIVE EmitLoop(_, _, _, _, _, _)
EmitLoop(stream, p, index, num_to_write, leading_records, out) ==
    LET rec == NextRecord(stream, p) IN
    IF rec.kind = "end" THEN [outcome |-> "panic", out |-> out]
    ELSE IF rec.kind = "err" THEN [outcome |-> "err", out |-> out]
    ELSE LET written == index >= leading_records
             out2 == IF written THEN out \o WriteRecord(rec) ELSE out
             left == IF written THEN num_to_write - 1 ELSE num_to_write
         IN IF left = 0 THEN [outcome |-> "ok", out |-> out2]
            ELSE EmitLoop(stream, rec.next, index + 1, left, leading_records, out2)

\* extract::run on the .fqi that index::run wrote and a BGZF compression of
\* the input with its .gzi.
ExtractRun(fqi, file, start, end) ==
    IF start > end THEN [outcome |-> "usage", out |-> <<>>]
    ELSE LET fqi_range == FastqIndexRangeFrom(fqi, start, end)
             gzi == BgzfIndexFrom(GziPairs(file))
             loc == Locate(gzi, 1, fqi_range, [start_entry |-> gzi[1], num_blocks |-> 0])
             stream == ReaderStream(file, loc.start_entry.compressed_offset,
                                    loc.num_blocks)
         IN EmitLoop(stream, 1, 0, end - start + 1, fqi_range.leading_records, <<>>)

Extract(start, end, size) ==
    /\ pc = "done" /\ builder = "index_run" /\ last.op = "none"
    /\ last' = [op |-> "extract", start |-> start, end |-> end, size |-> size,
                res |-> ExtractRun(fqiFile, BgzfFile(FileBytes(fastq), size), start, end)]
    /\ UNCHANGED <<fastq, nth, builder, fastq_writer, pc, rpos, total_records,
                   total_bytes, entries, fqiFile, stdout>>
    /\ UNCHANGED <<readerVars, run>>

\* extract::run up to its emission loop: the usage check, the .fqi and .gzi
\* look-ups, BgzfReader::new and the tokenizer on the reader's stream.
EmitStart(start, end, size) ==
    /\ pc = "done" /\ builder = "index_run" /\ run.pc = "idle"
    /\ run' = IF start > end THEN [pc |-> "usage", start |-> start, end |-> end]
              ELSE LET file == BgzfFile(FileBytes(fastq), size)
                       fqi_range == FastqIndexRangeFrom(fqiFile, start, end)
                       gzi == BgzfIndexFrom(GziPairs(file))
                       loc == Locate(gzi, 1, fqi_range,
                                     [start_entry |-> gzi[1], num_blocks |-> 0])
                   IN [pc |-> "loop", start |-> start, end |-> end,
                       fqi_range |-> fqi_range,
                       stream |-> ReaderStream(file, loc.start_entry.compressed_offset,
                                               loc.num_blocks),
                       p |-> 1,
                       index |-> 0,
                       num_to_write |-> end - start + 1,
                       out |-> <<>>,
                       written |-> <<>>]
    /\ UNCHANGED <<indexVars, readerVars>>

\* Mutant of EmitStep: the loop has no break when num_to_write is 0.
EmitStepNoBreak ==
    LET rec == NextRecord(run.stream, run.p) IN
    /\ run.pc = "loop"
    /\ run' = IF rec.kind = "end" THEN [run EXCEPT !.pc = "panic"]
              ELSE IF rec.kind = "err" THEN [run EXCEPT !.pc = "err"]
              ELSE LET emit == run.index >= run.fqi_range.leading_records
                   IN [run EXCEPT
                         !.out = IF emit THEN @ \o WriteRecord(rec) ELSE @,
                         !.written = IF emit THEN Append(@, run.index) ELSE @,
                         !.num_to_write = IF emit THEN @ - 1 ELSE @,
                         !.p = rec.next,
                         !.index = @ + 1]
    /\ UNCHANGED <<indexVars, readerVars>>

\* One iteration of the emission loop of extract::run.  A parse error ends
\* the run with Err; when the tokenizer needs bytes after the end-of-file
\* block the reader panics.
EmitStep ==
    LET rec == NextRecord(run.stream, run.p) IN
    /\ run.pc = "loop"
    /\ run' = IF rec.kind = "end" THEN [run EXCEPT !.pc = "panic"]
              ELSE IF rec.kind = "err" THEN [run EXCEPT !.pc = "err"]
              ELSE LET emit == run.index >= run.fqi_range.leading_records
                       left == IF emit THEN run.num_to_write - 1 ELSE run.num_to_write
                   IN [run EXCEPT
                         !.out = IF emit THEN @ \o WriteRecord(rec) ELSE @,
                         !.written = IF emit THEN Append(@, run.index) ELSE @,
                         !.num_to_write = left,
                         !.p = rec.next,
                         !.index = @ + 1,
                         !.pc = IF left = 0 THEN "ok" ELSE "loop"]
    /\ UNCHANGED <<indexVars, readerVars>>

\* -------------------------------------------------------------- BgzfReader
\* The payloads of the data blocks of the files the reader is run on:
\* "@A", "A@" and "AA".
ReaderPayloads == {<<AT, 65>>, <<65, AT>>, <<65, 65>>}

\* What can be wrong with a file of n blocks: the CRC32 of block at does not
\* match its payload ("sum"), the file ends inside or right before the header
\* of block at ("header"), or inside the body of block at ("body").
Damages(n) ==
    {NoDamage} \cup {[kind |-> k, at |-> i] : k \in {"sum", "header", "body"}, i \in 1..n}

\* read_exact of the header of block p succeeds.
HeaderRead(p) ==
    /\ p <= Len(file_blocks)
    /\ damage.kind = "header" => p < damage.at
    /\ damage.kind = "body" => p <= damage.at

\* read_exact of the body of block p succeeds.
BodyRead(p) == ~(damage.kind = "body" /\ p = damage.at)

\* decompress of block p finds the CRC32 of the trailer.
SumMatches(p) == ~(damage.kind = "sum" /\ p = damage.at)

\* The fields of the BgzfReader that fill and read change.
Fields ==
    [reader |-> reader,
     uncompressed_data |-> uncompressed_data,
     uncompressed_data_index |-> uncompressed_data_index,
     num_blocks_left |-> num_blocks_left,
     decoded |-> decoded]

bytes_available(s) == Len(s.uncompressed_data) - s.uncompressed_data_index

\* Mutant of fill: the block is put in the buffer whatever its CRC32.
fillUnchecked(s) ==
    IF 0 < bytes_available(s) THEN [res |-> "ok", n |-> bytes_available(s), s |-> s]
    ELSE IF s.num_blocks_left = 0 THEN [res |-> "ok", n |-> 0, s |-> s]
    ELSE IF ~HeaderRead(s.reader) THEN [res |-> "err", n |-> 0, s |-> s]
    ELSE IF ~BodyRead(s.reader) THEN [res |-> "err", n |-> 0, s |-> s]
    ELSE LET t == [s EXCEPT !.reader = s.reader + 1,
                            !.uncompressed_data = file_blocks[s.reader].payload,
                            !.uncompressed_data_index = 0,
                            !.decoded = Append(s.decoded, s.reader)]
         IN [res |-> "ok", n |-> bytes_available(t), s |-> t]

\* BgzfReader::fill on the reader s: Ok(n), Err for a read_exact that fails,
\* or the panic of an unwrap; with the reader after the call.  The budget
\* num_blocks_left is tested and never counted down.
fill(s) ==
    IF 0 < bytes_available(s) THEN [res |-> "ok", n |-> bytes_available(s), s |-> s]
    ELSE IF s.num_blocks_left = 0 THEN [res |-> "ok", n |-> 0, s |-> s]
    ELSE IF ~HeaderRead(s.reader) THEN [res |-> "err", n |-> 0, s |-> s]
    ELSE IF ~BodyRead(s.reader) THEN [res |-> "err", n |-> 0, s |-> s]
    ELSE IF ~SumMatches(s.reader) THEN [res |-> "panic", n |-> 0, s |-> s]
    ELSE LET t == [s EXCEPT !.reader = s.reader + 1,
                            !.uncompressed_data = file_blocks[s.reader].payload,
                            !.uncompressed_data_index = 0,
                            !.decoded = Append(s.decoded, s.reader)]
         IN [res |-> "ok", n |-> bytes_available(t), s |-> t]

\* The loop of BgzfReader::new: fill, then skip to the first '@' of the
\* buffer, until one is found or fill has nothing.  fill().unwrap() panics on
\* an Err.
RECURSIVE Prime(_)
Prime(s) ==
    LET f == fill(s) IN
    IF f.res # "ok" THEN [res |-> "panic", s |-> f.s]
    ELSE IF f.n = 0 THEN [res |-> "ok", s |-> f.s]
    ELSE LET data == f.s.uncompressed_data
             ats == {i \in (f.s.uncompressed_data_index + 1)..Len(data) : data[i] = AT}
         IN IF ats # {}
            THEN [res |-> "ok",
                  s |-> [f.s EXCEPT !.uncompressed_data_index =
                                       (CHOOSE i \in ats : \A j \in ats : i <= j) - 1]]
            ELSE Prime([f.s EXCEPT !.uncompressed_data_index = Len(data)])

\* The loop of BgzfReader::read over buf_index..len-1; out is what it has put
\* in buf.  An Err of fill is not Ok(0), so the loop goes on to index the
\* buffer, which panics at the end of the buffer.
RECURSIVE ReadLoop(_, _, _, _)
ReadLoop(s, buf_index, len, out) ==
    IF buf_index = len THEN [res |-> "ok", n |-> len, s |-> s, out |-> out]
    ELSE LET f == IF bytes_available(s) = 0 THEN fill(s)
                  ELSE [res |-> "ok", n |-> bytes_available(s), s |-> s]
         IN IF bytes_available(s) = 0 /\ f.res = "ok" /\ f.n = 0
            THEN [res |-> "ok", n |-> buf_index, s |-> f.s, out |-> out]
            ELSE IF f.res = "panic" \/ bytes_available(f.s) = 0
            THEN [res |-> "panic", n |-> buf_index, s |-> f.s, out |-> out]
            ELSE ReadLoop([f.s EXCEPT !.uncompressed_data_index = @ + 1],
                          buf_index + 1, len,
                          Append(out,
                                 [byte |-> f.s.uncompressed_data[f.s.uncompressed_data_index + 1],
                                  block |-> f.s.decoded[Len(f.s.decoded)],
                                  at |-> f.s.uncompressed_data_index + 1]))

\* BgzfReader::new at the start of block k with the budget n.
BgzfReaderNew(k, n) ==
    /\ rd = "closed"
    /\ k \in 1..Len(file_blocks)
    /\ arg_compressed_offset' = file_blocks[k].compressed_offset
    /\ arg_num_blocks' = n
    /\ LET p == Prime([reader |-> k, uncompressed_data |-> <<>>,
                       uncompressed_data_index |-> 0, num_blocks_left |-> n,
                       decoded |-> <<>>])
       IN /\ rd' = IF p.res = "ok" THEN "open" ELSE "panic"
          /\ reader' = p.s.reader
          /\ uncompressed_data' = p.s.uncompressed_data
          /\ uncompressed_data_index' = p.s.uncompressed_data_index
          /\ num_blocks_left' = p.s.num_blocks_left
          /\ decoded' = p.s.decoded
          /\ ret' = [op |-> "new", res |-> p.res]
    /\ UNCHANGED <<indexVars, run, file_blocks, damage, served>>

\* BgzfReader::read into a buffer of len bytes.
BgzfReaderRead(len) ==
    /\ rd = "open"
    /\ LET r == ReadLoop(Fields, 0, len, <<>>)
       IN /\ rd' = IF r.res = "ok" THEN "open" ELSE "panic"
          /\ reader' = r.s.reader
          /\ uncompressed_data' = r.s.uncompressed_data
          /\ uncompressed_data_index' = r.s.uncompressed_data_index
          /\ num_blocks_left' = r.s.num_blocks_left
          /\ decoded' = r.s.decoded
          /\ served' = IF r.res = "ok" THEN served \o r.out ELSE served
          /\ ret' = [op |-> "read", res |-> r.res, len |-> len, n |-> r.n]
    /\ UNCHANGED <<indexVars, run, file_blocks, damage, arg_compressed_offset,
                   arg_num_blocks>>

Next ==
    \/ FromStep
    \/ FromReaderStep
    \/ BuilderReturn
    \/ IndexRunStep
    \/ IndexRunReturn
    \/ \E s, e \in 0..(MaxRecords + 1) : Range(s, e)
    \/ Write
    \/ \E cut \in 0..MaxCut : Read(cut)
    \/ \E s, e \in 1..(MaxRecords + 1), size \in BlockSizes : Extract(s, e, size)

Spec == Init /\ [][Next]_vars

\* The BgzfReader on its own, on a BGZF file of up to MaxBlocks data blocks
\* and the end-of-file block, whole or damaged: no index is being built.
ReaderInit ==
    /\ fastq = <<>>
    /\ nth = 1
    /\ builder = "index_run"
    /\ fastq_writer = FALSE
    /\ pc = "loop"
    /\ rpos = 1
    /\ total_records = 0
    /\ total_bytes = 0
    /\ entries = <<>>
    /\ fqiFile = <<>>
    /\ stdout = <<>>
    /\ last = [op |-> "none"]
    /\ file_blocks \in {Blocks(ps, 0, 0) : ps \in SeqsUpTo(ReaderPayloads, MaxBlocks)}
    /\ damage \in Damages(Len(file_blocks))
    /\ ReaderClosed
    /\ run = [pc |-> "idle"]

ReaderNext ==
    \/ \E k \in 1..(MaxBlocks + 1), n \in 0..(MaxBlocks + 1) : BgzfReaderNew(k, n)
    \/ \E len \in 1..MaxRead : BgzfReaderRead(len)

ReaderSpec == ReaderInit /\ [][ReaderNext]_vars

\* The index subcommand followed by extract, its emission loop step by step.
EmitInit == Init /\ builder = "index_run"

EmitNext ==
    \/ IndexRunStep
    \/ IndexRunReturn
    \/ \E s, e \in 1..(MaxRecords + 1), size \in BlockSizes : EmitStart(s, e, size)
    \/ EmitStep

EmitSpec == EmitInit /\ [][EmitNext]_vars

\* ================================================================ claims
NumRecords == Len(fastq)

\* The bytes of the records first..final (1-based, inclusive) of the input.
RecordsBytes(first, final) ==
    IF final < first THEN <<>> ELSE FileBytes(SubSeq(fastq, first, final))

NoComments == \A i \in 1..Len(fastq) : fastq[i].comment = <<>>

IsRange == Built /\ last.op = "range"
InRange == IsRange /\ 1 <= last.start /\ last.start <= last.end
               /\ last.end <= total_records

\* C1: for 1 <= start <= end <= total_records the extract pipeline, run on
\* the .fqi of the index subcommand and a BGZF compression of the input with
\* its .gzi, succeeds and writes exactly the bytes of the records start..end.
C1_ExtractEmitsRange ==
    (last.op = "extract" /\ 1 <= last.start /\ last.start <= last.end
        /\ last.end <= NumRecords)
    => /\ last.res.outcome = "ok"
       /\ last.res.out = RecordsBytes(last.start, last.end)

\* C2: for 1 <= start <= end <= total_records, range returns Some(r), no
\* step of r.total_records - r.leading_records - r.trailing_records goes
\* below zero, and the difference is end - start + 1.
C2_RangeSound ==
    InRange =>
        /\ last.res.some = TRUE
        /\ last.res.total_records - last.res.leading_records >= 0
        /\ selected_records(last.res) >= 0
        /\ selected_records(last.res) = last.end - last.start + 1

C2_Witness ==
    /\ InRange /\ nth = 2 /\ total_records = 3
    /\ last.start = 3 /\ last.end = 3
    /\ last.res.some = TRUE /\ selected_records(last.res) = 1

\* The position of the entry with the largest total_records below start.
LoEntry(start) ==
    CHOOSE i \in 1..Len(entries) :
        /\ entries[i].total_records < start
        /\ \A j \in 1..Len(entries) :
               entries[j].total_records < start
                   => entries[j].total_records <= entries[i].total_records

\* The position of the first entry at or after position lo with
\* total_records >= end.
HiEntry(lo, end) ==
    CHOOSE i \in lo..Len(entries) :
        /\ entries[i].total_records >= end
        /\ \A j \in lo..(i - 1) : entries[j].total_records < end

\* C3: for 1 <= start <= end <= total_records the result of range has the
\* start_byte of the entry with the largest total_records < start, the
\* end_byte of the first entry at or after it with total_records >= end, the
\* difference of their record counts as total_records, that end entry's
\* total_records - end as trailing_records and start_byte <= end_byte; and the
\* bytes [start_byte, end_byte) of the input are exactly the total_records
\* records between the two checkpoints, in an index built by from_reader and
\* in one built by the deprecated from over records without a '+' comment
\* (from is documented not to count such comments).
C3_RangeResolution ==
    InRange =>
        LET lo == LoEntry(last.start)
            hi == HiEntry(lo, last.end)
            r == last.res
        IN /\ r.some = TRUE
           /\ r.start_byte = entries[lo].total_bytes
           /\ r.end_byte = entries[hi].total_bytes
           /\ r.total_records = entries[hi].total_records - entries[lo].total_records
           /\ r.trailing_records = entries[hi].total_records - last.end
           /\ r.start_byte <= r.end_byte
           /\ (builder = "from_reader" \/ NoComments) =>
                /\ SubSeq(FileBytes(fastq), r.start_byte + 1, r.end_byte)
                     = RecordsBytes(entries[lo].total_records + 1,
                                    entries[hi].total_records)
                /\ r.total_records
                     = entries[hi].total_records - (entries[lo].total_records + 1) + 1

C3_Witness ==
    /\ InRange /\ builder = "from_reader" /\ nth = 2 /\ total_records = 3
    /\ fastq[1] = RecComment
    /\ last.start = 2 /\ last.end = 3
    /\ last.res.some = TRUE
    /\ last.res.start_byte = 0 /\ last.res.total_records = 3

\* C4: range(a, b) is None when b < a, when b < 1, when a > total_records and
\* for every query on an index of zero records, and is Some in every other
\* case.
C4_NoneCases ==
    IsRange =>
        /\ (last.res = None)
               <=> (\/ last.end < last.start
                    \/ last.end < 1
                    \/ last.start > total_records
                    \/ total_records = 0)
        /\ (last.res # None) => (last.res.some = TRUE)

C4_Witness ==
    /\ IsRange /\ total_records = 0
    /\ last.start = 0 /\ last.end = 1
    /\ last.res = None

\* C5: range(0, k) returns what range(1, k) returns, range(k, M) with
\* M > total_records returns what range(k, total_records) returns, and a query
\* makes at most three invocations of range: it never diverges.
C5_Clamping ==
    IsRange =>
        /\ last.start = 0 => last.res = range(Index, 1, last.end)
        /\ last.end > total_records
               => last.res = range(Index, last.start, total_records)
        /\ last.calls <= 3
        /\ last.res # Diverged

C5_Witness ==
    /\ IsRange /\ total_records = 3 /\ nth = 2
    /\ last.start = 0 /\ last.end = 4
    /\ last.calls = 3
    /\ last.res.some = TRUE /\ selected_records(last.res) = 3

\* C6: in the index built by from_reader every entry (r, b) has b = the byte
\* length of the first r records of the input; entries[0] is (0, 0), the last
\* entry is (number of records, byte length of the input) and the header
\* total_records is the number of records read.
C6_PrefixSums ==
    (pc = "done" /\ builder = "from_reader") =>
        /\ \A i \in 1..Len(entries) :
               /\ entries[i].total_records \in 0..NumRecords
               /\ entries[i].total_bytes = Len(RecordsBytes(1, entries[i].total_records))
        /\ entries[1] = Entry(0, 0)
        /\ entries[Len(entries)] = Entry(NumRecords, Len(FileBytes(fastq)))
        /\ Index.total_records = NumRecords

C6_Witness ==
    /\ pc = "done" /\ builder = "from_reader" /\ nth = 2
    /\ fastq = <<RecPlain, RecComment, RecAtQual>>
    /\ entries = <<Entry(0, 0), Entry(2, 55), Entry(3, 65)>>

\* C7: in the index built by from or from_reader the total_records of the
\* entries strictly increase, every entry but the last has total_records =
\* its 0-based position times nth, the last entry exceeds the one before it
\* by at most nth, and total_bytes never decreases.
C7_StrideInvariant ==
    Built =>
        /\ \A i \in 1..(Len(entries) - 1) :
               /\ entries[i].total_records < entries[i + 1].total_records
               /\ entries[i].total_records = (i - 1) * nth
               /\ entries[i].total_bytes <= entries[i + 1].total_bytes
        /\ Len(entries) >= 1
        /\ Len(entries) >= 2 =>
               entries[Len(entries)].total_records
                   - entries[Len(entries) - 1].total_records <= nth

C7_Witness ==
    /\ Built /\ nth = 2 /\ total_records = 3
    /\ Len(entries) = 3
    /\ entries[2].total_records = 2 /\ entries[3].total_records = 3

\* C8 as stated: an index built with nth > total_records has exactly 2
\* entries, whatever the number of input records.
C8_TwoEntries ==
    (Built /\ nth > total_records) => Len(entries) = 2

\* C8 amended: an index built with nth > total_records from at least one
\* record has exactly 2 entries; built from no record it has the single
\* entry (0, 0).
C8_TwoEntriesNonEmpty ==
    (Built /\ nth > total_records) =>
        /\ total_records >= 1 => Len(entries) = 2
        /\ total_records = 0 => entries = <<Entry(0, 0)>>

C8_Witness ==
    /\ Built /\ nth = 3 /\ total_records = 2
    /\ Len(entries) = 2

\* C9: read of the file that write produced returns the index written; the
\* file has 16 + 16 * entries.len() bytes; and read fails on a file whose
\* entry area ends after an odd number of u64 values.
C9_RoundTrip ==
    /\ (Built /\ fqiFile # <<>>) => Len(fqiFile) = 16 + 16 * Len(entries)
    /\ (Built /\ last.op = "read") =>
           LET size == Len(fqiFile) - last.cut IN
           /\ last.cut = 0 => (last.res.ok /\ last.res.index = Index)
           /\ (size >= 16 /\ ((size - 16) \div 8) % 2 = 1) => ~last.res.ok

C9_Witness ==
    /\ Built /\ last.op = "read" /\ last.cut = 0
    /\ Len(entries) = 3
    /\ last.res.ok /\ last.res.index.entries = entries

\* C10: every record read by from_reader advances total_bytes by the exact
\* byte length of that record in the input, which for a record with a comment
\* on its '+' line is not the field-sum estimate; the 36-byte record with a
\* comment followed by the 19-byte record gives the offsets 0, 36, 55.
C10_ExactBytes ==
    /\ [][FromReaderStep =>
            LET r == fastq[total_records + 1] IN
            /\ total_bytes' - total_bytes = Len(RecordBytes(r))
            /\ r.comment # <<>> =>
                   total_bytes' - total_bytes
                       # 1 + Len(r.head) + 1 + Len(r.seq) + 1 + 2 + Len(r.qual) + 1]_vars
    /\ []((pc = "done" /\ builder = "from_reader" /\ nth = 1
             /\ fastq = <<RecComment, RecPlain>>)
            => entries = <<Entry(0, 0), Entry(1, 36), Entry(2, 55)>>)

C10_Witness ==
    /\ pc = "done" /\ builder = "from_reader" /\ nth = 1
    /\ fastq = <<RecComment, RecPlain>>
    /\ entries[2].total_bytes = 36

\* C11: with a pass-through writer configured, the bytes written to it for
\* each record are that record's input bytes, the comment of the '+' line
\* included: after r records the output is the first r records of the input,
\* and a checkpoint's total_bytes is an offset of a record boundary in it.
C11_PassThroughVerbatim ==
    fastq_writer =>
        /\ stdout = RecordsBytes(1, total_records)
        /\ builder = "from_reader" => total_bytes = Len(stdout)

\* The entries of the .fqi of index::run as the layout with a header has
\* them: the pairs of words after the first 16 bytes.
EntriesAfterHeader == ReadPairs(fqiFile, 17, <<>>)

\* C12: the file written by index::run starts with the words total_records
\* and nth, the entries follow as pairs of words, the first (0, 0) and the
\* last the grand totals, and the .fqi reader of extract takes exactly the
\* pairs after the 16-byte header as its entries.
C12_FqiLayout ==
    (pc = "done" /\ builder = "index_run") =>
        /\ Len(fqiFile) >= 32
        /\ SubSeq(fqiFile, 1, 16) = U64LE(total_records) \o U64LE(nth)
        /\ EntriesAfterHeader[1] = [num_records |-> 0, total_bytes |-> 0]
        /\ EntriesAfterHeader[Len(EntriesAfterHeader)]
               = [num_records |-> total_records, total_bytes |-> total_bytes]
        /\ ReadPairs(fqiFile, 1, <<>>) = EntriesAfterHeader

\* C13: a request that starts beyond the indexed records (start > the number
\* of records) makes the extract pipeline write no record and succeed.
C13_OutOfRange ==
    (last.op = "extract" /\ last.start <= last.end /\ last.start > NumRecords)
    => /\ last.res.outcome = "ok"
       /\ last.res.out = <<>>

\* The entries of a built index as the pairs of words the .fqi reader of
\* extract takes them for.
AsPairs(es) ==
    [i \in 1..Len(es) |->
        [num_records |-> es[i].total_records, total_bytes |-> es[i].total_bytes]]

\* leading_records by the subtractive form, start_record - last_total - 1,
\* as the loop of FastqIndexRange::from computes it over the entries.
Subtractive(start_record, end_record) ==
    RangeLoop(AsPairs(entries), 1, start_record, end_record,
              [leading_records |-> start_record - 1, trailing_records |-> 0,
               start_byte |-> 0, end_byte |-> 0, num_records |-> 0]).leading_records

\* start_record lies in the final short chunk of the index.
InShortTail(start_record) ==
    /\ total_records % nth # 0
    /\ total_records - (total_records % nth) < start_record
    /\ start_record <= total_records

\* C16 as stated: the modulo form and the subtractive form of
\* leading_records agree for a start_record in a full-stride chunk, and in an
\* index with total_records % nth # 0 they differ for some start_record of the
\* final short chunk.
C16_DivergeInTail ==
    Built =>
        /\ \A s \in 1..total_records :
               ~InShortTail(s)
                   => range(Index, s, s).leading_records = Subtractive(s, s)
        /\ total_records % nth # 0 =>
               \E s \in 1..total_records :
                   /\ InShortTail(s)
                   /\ range(Index, s, s).leading_records # Subtractive(s, s)

\* C16 amended: for an index built by from or from_reader and every
\* 1 <= start_record <= end_record <= total_records, the leading_records of
\* range (the modulo form) is the subtractive form and lies in 0..nth-1, in
\* the final short chunk as in the full ones.
C16_FormsCoincide ==
    InRange =>
        /\ last.res.leading_records = Subtractive(last.start, last.end)
        /\ last.res.leading_records = (last.start - 1) % nth
        /\ last.res.leading_records \in 0..(nth - 1)

C16_Witness ==
    /\ InRange /\ nth = 3 /\ total_records = 2
    /\ InShortTail(last.start) /\ last.start = 2
    /\ last.res.leading_records = 1
    /\ Subtractive(last.start, last.end) = 1

\* The inputs of the .gzi scan of the last extract run.
ExtractFile == BgzfFile(FileBytes(fastq), last.size)
ExtractGzi == BgzfIndexFrom(GziPairs(ExtractFile))
ExtractFqiRange == FastqIndexRangeFrom(fqiFile, last.start, last.end)
ExtractLocate ==
    Locate(ExtractGzi, 1, ExtractFqiRange, [start_entry |-> ExtractGzi[1], num_blocks |-> 0])

IsExtractInRange ==
    /\ last.op = "extract"
    /\ 1 <= last.start /\ last.start <= last.end /\ last.end <= NumRecords

\* C17: the start_entry chosen by extract::run is the .gzi entry with the
\* largest uncompressed_offset <= start_byte, and num_blocks is the number of
\* entries from start_entry up to and including the first entry with
\* uncompressed_offset >= end_byte (all the entries after start_entry when
\* there is none).
C17_BlockLocation ==
    IsExtractInRange =>
        LET gzi == ExtractGzi
            start_byte == ExtractFqiRange.start_byte
            end_byte == ExtractFqiRange.start_byte + ExtractFqiRange.num_bytes
            lo == CHOOSE i \in 1..Len(gzi) :
                      /\ gzi[i].uncompressed_offset <= start_byte
                      /\ \A j \in 1..Len(gzi) :
                             gzi[j].uncompressed_offset <= start_byte
                                 => gzi[j].uncompressed_offset <= gzi[i].uncompressed_offset
            his == {i \in lo..Len(gzi) : gzi[i].uncompressed_offset >= end_byte}
            hi == IF his = {} THEN Len(gzi)
                  ELSE CHOOSE i \in his : \A j \in his : i <= j
        IN /\ ExtractLocate.start_entry = gzi[lo]
           /\ ExtractLocate.num_blocks = hi - lo + 1

\* C19: after BgzfReader::new in the extract pipeline the first byte served
\* is the byte at uncompressed offset start_byte of the decompressed file.
C19_PrimingLandsOnStart ==
    IsExtractInRange =>
        FirstServedOffset(ExtractFile, ExtractLocate.start_entry.compressed_offset,
                          ExtractLocate.num_blocks)
            = ExtractFqiRange.start_byte

\* The bytes read has returned so far, in order.
ServedBytes == [i \in 1..Len(served) |-> served[i].byte]

IsPrefix(a, b) == Len(a) <= Len(b) /\ a = SubSeq(b, 1, Len(a))

\* C14: a BgzfReader constructed at compressed offset 0 on a well-formed
\* file, with a budget of at least the number of its blocks, serves the
\* decompressed payloads of the blocks in order, nothing dropped, duplicated
\* or reordered: what it has served is always a prefix of their
\* concatenation, and all of it once read has returned 0.
C14_ByteConservation ==
    (rd # "closed" /\ damage = NoDamage /\ arg_compressed_offset = 0
        /\ arg_num_blocks >= Len(file_blocks))
    => /\ IsPrefix(ServedBytes, PayloadFrom(file_blocks, 1))
       /\ (ret.op = "read" /\ ret.res = "ok" /\ ret.n = 0)
              => ServedBytes = PayloadFrom(file_blocks, 1)

\* C15: on a file that ends while fill reads a block header, construction
\* completes and every read returns the count of bytes it served: the reader
\* never panics and no call ends in an error.
C15_TruncatedHeaderCleanEof ==
    (damage.kind = "header" /\ rd # "closed") =>
        /\ rd = "open"
        /\ ret.res = "ok"

\* C18: a BgzfReader decodes at most num_blocks blocks, and each block
\* decoded takes one from the remaining budget.
C18_BlockBudget ==
    rd # "closed" =>
        /\ Len(decoded) <= arg_num_blocks
        /\ num_blocks_left = arg_num_blocks - Len(decoded)

\* C20: every block decoded into the buffer was read whole and its CRC32
\* matched; every byte read has returned is a byte of such a block, served
\* after the block was decoded; the buffer is empty before the first block is
\* decoded and afterwards holds the payload of exactly the block decoded
\* last; and the read cursor is never beyond the length of the buffer.
C20_VerifyBeforeServe ==
    /\ \A i \in 1..Len(decoded) :
           HeaderRead(decoded[i]) /\ BodyRead(decoded[i]) /\ SumMatches(decoded[i])
    /\ \A i \in 1..Len(served) :
           /\ \E j \in 1..Len(decoded) : decoded[j] = served[i].block
           /\ SumMatches(served[i].block)
           /\ served[i].byte = file_blocks[served[i].block].payload[served[i].at]
    /\ uncompressed_data
           = IF decoded = <<>> THEN <<>> ELSE file_blocks[decoded[Len(decoded)]].payload
    /\ uncompressed_data_index \in 0..Len(uncompressed_data)

C20_Witness ==
    /\ damage = [kind |-> "sum", at |-> 2]
    /\ rd = "panic" /\ ret.op = "read"
    /\ decoded = <<1>>
    /\ Len(served) = 2 /\ served[2].block = 1

\* The indexes lo, lo + 1, ..., hi - 1 in order.
Indexes(lo, hi) == [k \in 1..(IF hi > lo THEN hi - lo ELSE 0) |-> lo + k - 1]

\* C21: in the emission loop of extract::run, of the records the tokenizer
\* has yielded (those with index below run.index) exactly the ones with
\* index >= leading_records were written; num_to_write is end - start + 1
\* less the number of records written and never below 0; at most
\* end - start + 1 records are written; and the loop goes on only while
\* num_to_write is above 0 and has stopped when it is 0.
C21_EmissionLoop ==
    (run.pc \in {"loop", "ok", "err", "panic"}) =>
        /\ run.written = Indexes(run.fqi_range.leading_records, run.index)
        /\ run.num_to_write = (run.end - run.start + 1) - Len(run.written)
        /\ run.num_to_write >= 0
        /\ Len(run.written) <= run.end - run.start + 1
        /\ run.pc = "loop" => run.num_to_write > 0
        /\ run.num_to_write = 0 => run.pc = "ok"

C21_Witness ==
    /\ run.pc = "ok" /\ run.start = 2 /\ run.end = 3
    /\ run.fqi_range.leading_records = 1
    /\ run.written = <<1, 2>>
    /\ run.num_to_write = 0

\* The last call was a read that returned fewer bytes than asked for, which
\* read does only when fill returned 0.
ShortRead == ret.op = "read" /\ ret.res = "ok" /\ ret.n < ret.len

\* C22: on a well-formed file, once read has returned fewer bytes than
\* requested, the next read (and so every later one) returns 0, serves no
\* byte and does not panic.
C22_StickyEndOfStream ==
    [][(damage = NoDamage /\ ShortRead)
          => /\ rd' = "open"
             /\ ret'.res = "ok" /\ ret'.n = 0
             /\ served' = served]_vars

====
